---- MODULE Spec2Model ----
(***************************************************************************)
(* Model of the MCP sales demo server (server/index.mjs) and its dataset   *)
(* generator (sales-data.mjs).                                             *)
(*                                                                         *)
(* JavaScript strings that the code concatenates, lower-cases or searches  *)
(* are sequences of one-character strings, so that `includes`,             *)
(* `toLowerCase`, `padStart` and template literals are computed and not    *)
(* assumed.  A JavaScript object with optional properties is a function    *)
(* whose DOMAIN holds exactly the properties that are present; an absent   *)
(* property reads as `undefined`.  Numbers are integers.                   *)
(***************************************************************************)
EXTENDS Integers, Sequences, FiniteSets, TLC

VARIABLES pc, now, DATASET, SALES_BY_ID, generated, servers, request, response,
          previous, results

vars == <<pc, now, DATASET, SALES_BY_ID, generated, servers, request, response,
          previous, results>>

(***************************************************************************)
(* Bounds of the model.                                                    *)
(***************************************************************************)
\* number of records generateSales is asked for (100 in the program)
DatasetSize == 2
\* longest `ids` array a fetch request carries
MaxIds == 2
\* number of McpServer contexts that can be open at the same time
MaxServers == 2
\* number of clock ticks after module load
MaxTicks == 2

(***************************************************************************)
(* Strings.                                                                *)
(***************************************************************************)
UpperCase == <<"A","B","C","D","E","F","G","H","I","J","K","L","M",
               "N","O","P","Q","R","S","T","U","V","W","X","Y","Z">>
LowerCase == <<"a","b","c","d","e","f","g","h","i","j","k","l","m",
               "n","o","p","q","r","s","t","u","v","w","x","y","z">>

toLowerCaseChar(c) ==
    IF \E k \in DOMAIN UpperCase : UpperCase[k] = c
    THEN LowerCase[CHOOSE k \in DOMAIN UpperCase : UpperCase[k] = c]
    ELSE c

\* String.prototype.toLowerCase
toLowerCase(s) == [i \in DOMAIN s |-> toLowerCaseChar(s[i])]

\* String.prototype.includes: some window of the haystack equals the needle
includes(haystack, needle) ==
    \E k \in 0..(Len(haystack) - Len(needle)) :
        \A i \in 1..Len(needle) : haystack[k + i] = needle[i]

Digits == <<"0","1","2","3","4","5","6","7","8","9">>

\* String(n) for a non-negative integer
RECURSIVE String(_)
String(n) ==
    IF n < 10 THEN <<Digits[n + 1]>>
    ELSE String(n \div 10) \o <<Digits[(n % 10) + 1]>>

\* String.prototype.padStart with a one-character filler
RECURSIVE padStart(_, _, _)
padStart(s, targetLength, fill) ==
    IF Len(s) >= targetLength THEN s
    ELSE padStart(<<fill>> \o s, targetLength, fill)

\* Number.prototype.toFixed(2) of an integer: the digits, a point, two zeros
toFixed2(n) == String(n) \o <<".", "0", "0">>

\* Number(text) of a decimal text with an all-zero fraction
RECURSIVE NumberOfDigits(_)
NumberOfDigits(s) ==
    IF Len(s) = 0 THEN 0
    ELSE 10 * NumberOfDigits(SubSeq(s, 1, Len(s) - 1))
         + ((CHOOSE d \in DOMAIN Digits : Digits[d] = s[Len(s)]) - 1)

Number(text) ==
    LET point == CHOOSE i \in DOMAIN text : text[i] = "."
    IN  NumberOfDigits(SubSeq(text, 1, point - 1))

(***************************************************************************)
(* sales-data.mjs                                                          *)
(***************************************************************************)
CUSTOMERS == <<
    <<"A","c","m","e"," ","C","o","r","p">>,
    <<"G","l","o","b","e","x">>,
    <<"I","n","i","t","e","c","h">>,
    <<"S","o","y","l","e","n","t">>,
    <<"U","m","b","r","e","l","l","a">>,
    <<"S","t","a","r","k"," ","I","n","d","u","s","t","r","i","e","s">>,
    <<"W","a","y","n","e"," ","E","n","t","e","r","p","r","i","s","e","s">>,
    <<"W","o","n","k","a"," ","I","n","d","u","s","t","r","i","e","s">>,
    <<"O","s","c","o","r","p">>,
    <<"T","y","r","e","l","l"," ","C","o","r","p">> >>

PRODUCTS == <<
    <<"M","C","P"," ","G","a","t","e","w","a","y">>,
    <<"M","C","P"," ","A","n","a","l","y","t","i","c","s"," ","S","u","i","t","e">>,
    <<"M","C","P"," ","P","r","o"," ","L","i","c","e","n","s","e">>,
    <<"M","C","P"," ","S","t","a","r","t","e","r"," ","P","a","c","k">>,
    <<"M","C","P"," ","M","o","n","i","t","o","r","i","n","g">>,
    <<"M","C","P"," ","S","e","c","u","r","i","t","y"," ","A","d","d","-","o","n">>,
    <<"M","C","P"," ","M","o","b","i","l","e">>,
    <<"M","C","P"," ","I","n","t","e","g","r","a","t","i","o","n","s"," ","B","u","n","d","l","e">> >>

REGIONS == <<
    <<"N","o","r","t","e">>,
    <<"S","u","r">>,
    <<"E","s","t","e">>,
    <<"O","e","s","t","e">>,
    <<"C","e","n","t","r","o">> >>

STATUSES == <<
    <<"C","o","m","p","l","e","t","e","d">>,
    <<"P","e","n","d","i","n","g">>,
    <<"C","a","n","c","e","l","l","e","d">> >>

\* randomInt(min, max) = floor(Math.random() * (max - min + 1)) + min: with
\* Math.random() in [0, 1) its outcomes are exactly the integers min..max
randomInt(min, max) == min..max

\* randomItem(items) with r the outcome of randomInt(0, items.length - 1)
randomItem(items, r) == items[r + 1]

(***************************************************************************)
(* Date.  An instant is [day, ms]: the local calendar day as a day number  *)
(* and the milliseconds since that day's midnight (a time zone without     *)
(* daylight-saving shifts).                                                *)
(***************************************************************************)
\* date.setDate(d): the same time of day on calendar day d
setDate(date, d) == [date EXCEPT !.day = d]

\* date.setHours(h, m, s, ms)
setHours(date, h, m, s, ms) ==
    [date EXCEPT !.ms = h * 3600000 + m * 60000 + s * 1000 + ms]

\* Date.prototype.toISOString: the instant split into its printed fields
toISOString(date) ==
    [ date   |-> date.day,
      hour   |-> date.ms \div 3600000,
      minute |-> (date.ms % 3600000) \div 60000,
      second |-> (date.ms % 60000) \div 1000,
      milli  |-> date.ms % 1000 ]

\* randomDateWithinDays(days) at instant `clock`, with draw d giving the
\* outcomes of its four randomInt calls
randomDateWithinDays(days, clock, d) ==
    LET pastOffset == d.pastOffset
        date == setDate(clock, clock.day - pastOffset)
    IN  setHours(date, d.hour, d.minute, d.second, 0)

\* The set of draws randomDateWithinDays(days) can make
DateDraws(days) ==
    [ pastOffset : randomInt(0, days), hour : randomInt(0, 23),
      minute : randomInt(0, 59), second : randomInt(0, 59) ]

\* One record of generateSales; index is 0-based as in Array.from's callback
SaleRecord(index, clock, d) ==
    LET quantity == d.quantity
        unitPrice == d.unitPrice
        status == randomItem(STATUSES, d.status)
    IN  [ id |-> <<"S","A","L","E","-">> \o padStart(String(index + 1), 4, "0"),
          customerName |-> randomItem(CUSTOMERS, d.customer),
          productName |-> randomItem(PRODUCTS, d.product),
          region |-> randomItem(REGIONS, d.region),
          quantity |-> quantity,
          unitPrice |-> unitPrice,
          totalAmount |-> Number(toFixed2(quantity * unitPrice)),
          saleDate |-> toISOString(randomDateWithinDays(120, clock, d)),
          status |-> status ]

\* generateSales(count) at instant `clock`; draws[i] holds the random outcomes
\* of the i-th record
generateSales(count, clock, draws) ==
    [i \in 1..count |-> SaleRecord(i - 1, clock, draws[i])]

\* new Map(DATASET.map((record) => [record.id, record])): a later entry with
\* the same key replaces an earlier one
NewSalesById(dataset) ==
    [k \in {dataset[i].id : i \in DOMAIN dataset} |->
        dataset[CHOOSE i \in DOMAIN dataset :
                    /\ dataset[i].id = k
                    /\ \A j \in DOMAIN dataset : dataset[j].id = k => j <= i]]

(***************************************************************************)
(* Draws the model enumerates.  Each is a record of outcomes of the        *)
(* generator's randomInt calls, all within the ranges the code draws from. *)
(***************************************************************************)
DrawOK(d) ==
    /\ d.customer \in randomInt(0, Len(CUSTOMERS) - 1)
    /\ d.product \in randomInt(0, Len(PRODUCTS) - 1)
    /\ d.region \in randomInt(0, Len(REGIONS) - 1)
    /\ d.status \in randomInt(0, Len(STATUSES) - 1)
    /\ d.quantity \in randomInt(1, 25)
    /\ d.unitPrice \in randomInt(50, 750)
    /\ [f \in {"pastOffset", "hour", "minute", "second"} |-> d[f]] \in DateDraws(120)

Draw(c, p, r, s, q, u, off, h, m, sec) ==
    [ customer |-> c, product |-> p, region |-> r, status |-> s,
      quantity |-> q, unitPrice |-> u,
      pastOffset |-> off, hour |-> h, minute |-> m, second |-> sec ]

\* draws that vary the date and time of day
GenDraws ==
    { Draw(0, 0, 0, 0, 1, 50, off, h, m, s) :
        off \in {0, 1, 119, 120}, h \in {0, 12, 23}, m \in {0, 59}, s \in {0, 59} }

\* instants at which the module is loaded
GenInstants ==
    { [day |-> 200, ms |-> 0],
      [day |-> 200, ms |-> 12 * 3600000 + 500],
      [day |-> 200, ms |-> 86399999] }

(***************************************************************************)
(* server/index.mjs                                                        *)
(***************************************************************************)
RESOURCE_URI == <<"m","c","p",":","/","/","v","e","n","t","a","s","/",
                  "r","e","c","o","r","d","s">>
DATA_NOTE == "Los registros son generados aleatoriamente y no representan ventas reales."

\* the JavaScript value null
null == [null |-> TRUE]

\* the object {}
EmptyObject == [k \in {} |-> k]

\* object.key is present (not undefined)
Has(object, key) == key \in DOMAIN object

\* the object with the properties of `extra` laid over those of `base` ({...base, ...extra})
Spread(base, extra) ==
    [k \in DOMAIN base \cup DOMAIN extra |-> IF k \in DOMAIN extra THEN extra[k] ELSE base[k]]

\* Math.min
Min(a, b) == IF a <= b THEN a ELSE b

\* slice that keeps one element too many
slice0_oneMore(array, end) ==
    SubSeq(array, 1, IF end + 1 <= Len(array) THEN end + 1 ELSE Len(array))

\* Array.prototype.slice(0, end)
slice0(array, end) ==
    LET len == Len(array)
        final == IF end < 0 THEN (IF len + end < 0 THEN 0 ELSE len + end) ELSE Min(end, len)
    IN  SubSeq(array, 1, final)

\* buildPayload(records, extra) evaluated at instant `clock`
buildPayload(records, extra, clock) ==
    Spread([ generatedAt |-> toISOString(clock),
             total |-> Len(records),
             records |-> records,
             note |-> DATA_NOTE ], extra)

\* what the server answers when the arguments fail the tool's input schema
InvalidParams == [kind |-> "error", code |-> "InvalidParams"]

ToolResult(content, structuredContent) ==
    [kind |-> "result", content |-> content, structuredContent |-> structuredContent]

\* z.number().min(lo).max(hi)
NumberMinMax(n, lo, hi) == lo <= n /\ n <= hi

\* a string schema without .min(1)
StringMin1_allowsEmpty(s) == Len(s) >= 0

\* z.string().min(1)
StringMin1(s) == Len(s) >= 1

\* ---- list-sales ----
\* the count schema without .max(DATASET.length)
listSalesSchema_noMax(args) ==
    Has(args, "count") => args.count >= 1

\* the tool's input schema: count is optional, 1 <= count <= DATASET.length
listSalesSchema(args) ==
    Has(args, "count") => NumberMinMax(args.count, 1, Len(DATASET))

\* a limit that ignores the requested count
listLimit_ignoresCount(args) == Len(DATASET)

\* const limit = Math.min(count ?? DATASET.length, DATASET.length)
listLimit(args) ==
    Min(IF Has(args, "count") THEN args.count ELSE Len(DATASET), Len(DATASET))

listSalesHandler(args, clock) ==
    LET limit == listLimit(args)
        records == slice0(DATASET, limit)
        payload == buildPayload(records,
                                [ limit |-> limit,
                                  totalAvailable |-> Len(DATASET),
                                  source |-> "list-sales" ],
                                clock)
    IN  ToolResult(<<[ type |-> "text",
                       text |-> [ template |-> "Se devuelven ${total} registros sinteticos (maximo ${totalAvailable}).",
                                  args |-> <<payload.total, payload.totalAvailable>> ] ]>>,
                   payload)

\* ---- search ----
RegionEnum == { REGIONS[i] : i \in DOMAIN REGIONS }
StatusEnum == { STATUSES[i] : i \in DOMAIN STATUSES }

filtersSchema(filters) ==
    /\ Has(filters, "region") => filters.region \in RegionEnum
    /\ Has(filters, "status") => filters.status \in StatusEnum

searchSchema(args) ==
    /\ Has(args, "query")
    /\ StringMin1(args.query)
    /\ Has(args, "filters") => filtersSchema(args.filters)
    /\ Has(args, "limit") => NumberMinMax(args.limit, 1, 100)

\* a string in a condition: the empty string is falsy, undefined is falsy
Truthy(object, key) == Has(object, key) /\ Len(object[key]) > 0

\* the callback of DATASET.filter in the search handler
saleMatches(sale, filters, normalizedQuery) ==
    IF Truthy(filters, "customer") /\ sale.customerName # filters.customer THEN FALSE
    ELSE IF Truthy(filters, "product") /\ sale.productName # filters.product THEN FALSE
    ELSE IF Truthy(filters, "region") /\ sale.region # filters.region THEN FALSE
    ELSE IF Truthy(filters, "status") /\ sale.status # filters.status THEN FALSE
    ELSE IF Has(filters, "minTotal") /\ sale.totalAmount < filters.minTotal THEN FALSE
    ELSE IF Has(filters, "maxTotal") /\ sale.totalAmount > filters.maxTotal THEN FALSE
    ELSE LET haystack == toLowerCase(sale.customerName \o <<" ">> \o sale.productName
                                     \o <<" ">> \o sale.region \o <<" ">> \o sale.status)
         IN  includes(haystack, normalizedQuery)

\* a search result whose id is the record's uri
searchResult_uriAsId(sale) ==
    [ id |-> RESOURCE_URI \o <<"#">> \o sale.id,
      title |-> sale.customerName \o <<" ", "·", " ">> \o sale.productName,
      snippet |-> [ template |-> "Estado ${status} · Total USD ${totalAmount.toFixed(2)} · Region ${region}",
                    args |-> <<sale.status, toFixed2(sale.totalAmount), sale.region>> ],
      uri |-> RESOURCE_URI \o <<"#">> \o sale.id,
      score |-> 1 ]

searchResult(sale) ==
    [ id |-> sale.id,
      title |-> sale.customerName \o <<" ", "·", " ">> \o sale.productName,
      snippet |-> [ template |-> "Estado ${status} · Total USD ${totalAmount.toFixed(2)} · Region ${region}",
                    args |-> <<sale.status, toFixed2(sale.totalAmount), sale.region>> ],
      uri |-> RESOURCE_URI \o <<"#">> \o sale.id,
      score |-> 1 ]

searchHandler(args) ==
    LET query == args.query
        normalizedQuery == toLowerCase(query)
        filters == IF Has(args, "filters") THEN args.filters ELSE EmptyObject
        keep(sale) == saleMatches(sale, filters, normalizedQuery)
        matches == SelectSeq(DATASET, keep)
        capped == slice0(matches, IF Has(args, "limit") THEN args.limit ELSE 20)
        results_ == [i \in DOMAIN capped |-> searchResult(capped[i])]
        structuredContent ==
            [ results |-> results_,
              totalMatches |-> Len(matches),
              returned |-> Len(results_),
              note |-> DATA_NOTE,
              query |-> [ query |-> query,
                          filters |-> IF Has(args, "filters") THEN args.filters ELSE null,
                          limit |-> IF Has(args, "limit") THEN args.limit ELSE null ] ]
        summary ==
            IF Len(results_) = 0
            THEN [ template |-> "No se encontraron ventas para los filtros solicitados.",
                   args |-> <<>> ]
            ELSE [ template |-> "Coincidencias encontradas: ${matches.length}. Se devuelven los primeros ${results.length}.",
                   args |-> <<Len(matches), Len(results_)>> ]
    IN  ToolResult(<<[type |-> "text", text |-> summary]>>, structuredContent)

\* ---- fetch ----
fetchSchema(args) ==
    /\ Has(args, "id")
    /\ StringMin1(args.id)
    /\ Has(args, "ids") =>
          /\ \A i \in DOMAIN args.ids : StringMin1(args.ids[i])
          /\ NumberMinMax(Len(args.ids), 1, 50)

\* [...new Set(array)]: each value once, in the order of its first occurrence
RECURSIVE uniqueOf(_, _)
uniqueOf(array, seen) ==
    IF array = <<>> THEN <<>>
    ELSE IF Head(array) \in seen THEN uniqueOf(Tail(array), seen)
    ELSE <<Head(array)>> \o uniqueOf(Tail(array), seen \cup {Head(array)})

\* requested ids passed on without removing duplicates
uniqueIdsOf_keepsDuplicates(requestedIds) == requestedIds

uniqueIdsOf(requestedIds) == uniqueOf(requestedIds, {})

\* the forEach of the fetch handler, over the ids still to resolve
RECURSIVE resolve(_, _, _)
resolve(ids, records, missing) ==
    IF ids = <<>> THEN [records |-> records, missing |-> missing]
    ELSE LET saleId == Head(ids)
         IN  IF saleId \in DOMAIN SALES_BY_ID
             THEN resolve(Tail(ids), Append(records, SALES_BY_ID[saleId]), missing)
             ELSE resolve(Tail(ids), records, Append(missing, saleId))

fetchHandler(args) ==
    LET requestedIds == <<args.id>> \o (IF Has(args, "ids") THEN args.ids ELSE <<>>)
        uniqueIds == uniqueIdsOf(requestedIds)
        out == resolve(uniqueIds, <<>>, <<>>)
        records == out.records
        missing == out.missing
        structuredContent ==
            Spread([records |-> records, note |-> DATA_NOTE],
                   IF Len(missing) > 0 THEN [missing |-> missing] ELSE EmptyObject)
        messageParts ==
            (IF Len(records) > 0
             THEN <<[ template |-> "Se devolvieron ${records.length} registro(s) solicitado(s).",
                      args |-> <<Len(records)>> ]>>
             ELSE <<>>)
            \o
            (IF Len(missing) > 0
             THEN <<[ template |-> "IDs no encontrados: ${missing.join(', ')}.",
                      args |-> <<missing>> ]>>
             ELSE <<>>)
    IN  ToolResult(IF Len(messageParts) > 0
                   THEN <<[type |-> "text", text |-> messageParts]>>
                   ELSE <<>>,
                   structuredContent)

(***************************************************************************)
(* State machine.                                                          *)
(***************************************************************************)
NoRequest == [tool |-> "none"]
NoResponse == [kind |-> "none"]

\* The process before index.mjs has been evaluated
InitAt(instants) ==
    /\ pc = "loading"
    /\ now \in instants
    /\ DATASET = <<>>
    /\ SALES_BY_ID = <<>>
    /\ generated = 0
    /\ servers = EmptyObject
    /\ request = NoRequest
    /\ response = NoResponse
    /\ previous = [request |-> NoRequest, response |-> NoResponse]
    /\ results = <<>>

\* index.mjs lines 19-20: the module-level DATASET = generateSales(count) and
\* its index SALES_BY_ID
ModuleLoad(count, Draws) ==
    /\ pc = "loading"
    /\ \E draws \in [1..count -> Draws] :
          /\ \A i \in 1..count : DrawOK(draws[i])
          /\ DATASET' = generateSales(count, now, draws)
    /\ SALES_BY_ID' = NewSalesById(DATASET')
    /\ generated' = generated + 1
    /\ pc' = "serving"
    /\ UNCHANGED <<now, servers, request, response, previous, results>>

\* a clock tick between two events
Tick ==
    /\ pc = "serving"
    /\ now.ms < MaxTicks
    /\ now' = [now EXCEPT !.ms = @ + 1]
    /\ UNCHANGED <<pc, DATASET, SALES_BY_ID, generated, servers, request, response, previous, results>>

\* a createServer that generates a dataset of its own for each context
createServer_ownDataset(s) ==
    /\ generated' = generated + 1
    /\ servers' = Spread(servers, [k \in {s} |-> generated + 1])
    /\ \E draws \in [1..Len(DATASET) -> {Draw(0, 0, 0, 0, 1, 50, 1, 0, 0, 0)}] :
          DATASET' = generateSales(Len(DATASET), now, draws)
    /\ SALES_BY_ID' = NewSalesById(DATASET')

\* createServer(): the McpServer s registers handlers that close over the
\* module-level DATASET and SALES_BY_ID; servers[s] is the generation of the
\* dataset those handlers read
createServer(s) ==
    /\ servers' = Spread(servers, [k \in {s} |-> generated])
    /\ UNCHANGED <<DATASET, SALES_BY_ID, generated>>

\* app.post('/mcp'): a new server for the request
PostMcp(s) ==
    /\ pc = "serving"
    /\ s \notin DOMAIN servers
    /\ createServer(s)
    /\ UNCHANGED <<pc, now, request, response, previous, results>>

\* res.on('close'): the request's transport and server are closed
Close(s) ==
    /\ s \in DOMAIN servers
    /\ servers' = [k \in DOMAIN servers \ {s} |-> servers[k]]
    /\ UNCHANGED <<pc, now, DATASET, SALES_BY_ID, generated, request, response, previous, results>>

\* a list-sales whose handler takes the records out of DATASET (splice for slice)
list_sales_splice(args) ==
    /\ pc = "serving"
    /\ previous' = [request |-> request, response |-> response]
    /\ request' = [tool |-> "list-sales", arguments |-> args]
    /\ response' = IF listSalesSchema(args) THEN listSalesHandler(args, now) ELSE InvalidParams
    /\ DATASET' = IF listSalesSchema(args)
                  THEN SubSeq(DATASET, listLimit(args) + 1, Len(DATASET))
                  ELSE DATASET
    /\ UNCHANGED <<pc, now, SALES_BY_ID, generated, servers, results>>

\* tools/call list-sales: the arguments are validated against the tool's
\* schema, then the handler runs
list_sales(args) ==
    /\ pc = "serving"
    /\ previous' = [request |-> request, response |-> response]
    /\ request' = [tool |-> "list-sales", arguments |-> args]
    /\ response' = IF listSalesSchema(args) THEN listSalesHandler(args, now) ELSE InvalidParams
    /\ UNCHANGED <<pc, now, DATASET, SALES_BY_ID, generated, servers, results>>

\* tools/call search; the client keeps the results of its last search
search(args) ==
    /\ pc = "serving"
    /\ previous' = [request |-> request, response |-> response]
    /\ request' = [tool |-> "search", arguments |-> args]
    /\ response' = IF searchSchema(args) THEN searchHandler(args) ELSE InvalidParams
    /\ results' = IF response'.kind = "result"
                  THEN response'.structuredContent.results
                  ELSE results
    /\ UNCHANGED <<pc, now, DATASET, SALES_BY_ID, generated, servers>>

\* tools/call fetch
fetch(args) ==
    /\ pc = "serving"
    /\ previous' = [request |-> request, response |-> response]
    /\ request' = [tool |-> "fetch", arguments |-> args]
    /\ response' = IF fetchSchema(args) THEN fetchHandler(args) ELSE InvalidParams
    /\ UNCHANGED <<pc, now, DATASET, SALES_BY_ID, generated, servers, results>>

(***************************************************************************)
(* Inputs the model enumerates.                                            *)
(***************************************************************************)
\* the objects with property `key` absent or set to one of `values`
Opt(key, values) == {EmptyObject} \cup { [k \in {key} |-> v] : v \in values }

\* draws that vary the fields search and fetch read
FieldDraws ==
    { Draw(0, 0, 0, 0, 1, 50, 1, 0, 0, 0),
      Draw(1, 6, 1, 2, 2, 50, 1, 0, 0, 0),
      Draw(0, 6, 1, 0, 25, 750, 1, 0, 0, 0) }

ServeDraws ==
    { Draw(0, 0, 0, 0, 1, 50, 1, 0, 0, 0),
      Draw(1, 6, 1, 2, 2, 50, 1, 0, 0, 0) }

ServeInstants == { [day |-> 200, ms |-> 0] }

SaleId(n) == <<"S","A","L","E","-">> \o padStart(String(n), 4, "0")

\* no tool call has been made yet.  The handlers read DATASET, SALES_BY_ID and
\* the clock only, so the specifications of one handler alone explore the
\* first call after module load; Spec explores sequences of calls.
Idle == request = NoRequest

\* ---- list-sales alone ----
ListArgs == Opt("count", (0 - 1)..(DatasetSize + 2))

InitList == InitAt(ServeInstants)
NextList ==
    \/ ModuleLoad(DatasetSize, FieldDraws)
    \/ Tick
    \/ Idle /\ \E args \in ListArgs : list_sales(args)
SpecList == InitList /\ [][NextList]_vars

\* ---- search alone ----
SearchQueries ==
    { <<>>, <<"a","c","m","e">>, <<"O","R">>, <<"s","u","r"," ","c">> }

SearchFilters ==
    { Spread(c, Spread(p, Spread(r, Spread(st, Spread(lo, hi))))) :
        c \in Opt("customer", {<<>>, CUSTOMERS[1]}),
        p \in Opt("product", {<<>>, PRODUCTS[1]}),
        r \in Opt("region", {REGIONS[1], <<"M","a","d","r","i","d">>}),
        st \in Opt("status", {STATUSES[1]}),
        lo \in Opt("minTotal", {0, 100}),
        hi \in Opt("maxTotal", {0, 100}) }

SearchArgs ==
    { Spread(q, Spread(f, l)) :
        q \in { [query |-> x] : x \in SearchQueries },
        f \in Opt("filters", SearchFilters),
        l \in Opt("limit", {0, 1, 100, 101}) }

InitSearch == InitAt(ServeInstants)
\* besides the small datasets, one dataset with more matches than the default
\* limit of 20
ManyDraws == { Draw(0, 0, 0, 0, 1, 50, 1, 0, 0, 0) }
NextSearch ==
    \/ ModuleLoad(DatasetSize, FieldDraws)
    \/ ModuleLoad(20 + DatasetSize, ManyDraws)
    \/ Idle /\ \E args \in SearchArgs : search(args)
SpecSearch == InitSearch /\ [][NextSearch]_vars

\* ---- fetch alone ----
FetchIds ==
    { <<>>, SaleId(1), SaleId(DatasetSize), SaleId(DatasetSize + 1), SaleId(9999),
      RESOURCE_URI \o <<"#">> \o SaleId(1) }

FetchArgs ==
    { Spread([id |-> i], l) :
        i \in FetchIds,
        l \in Opt("ids", UNION { [1..n -> FetchIds] : n \in 0..MaxIds }) }

InitFetch == InitAt(ServeInstants)
NextFetch ==
    \/ ModuleLoad(DatasetSize, FieldDraws)
    \/ Idle /\ \E args \in FetchArgs : fetch(args)
SpecFetch == InitFetch /\ [][NextFetch]_vars

\* ---- the same call made again, at the same or a later instant ----
RepeatListArgs == Opt("count", {1})
RepeatSearchArgs == { [query |-> <<"a","c","m","e">>], [query |-> <<"o">>, limit |-> 1] }
RepeatFetchArgs == { [id |-> SaleId(1)], [id |-> SaleId(9999), ids |-> <<SaleId(1)>>] }

InitRepeat == InitAt(ServeInstants)
NextRepeat ==
    \/ ModuleLoad(DatasetSize, ServeDraws)
    \/ Tick
    \/ \E args \in RepeatListArgs : list_sales(args)
    \/ \E args \in RepeatSearchArgs : search(args)
    \/ \E args \in RepeatFetchArgs : fetch(args)
SpecRepeat == InitRepeat /\ [][NextRepeat]_vars

\* ---- the server: contexts, and a client that searches and
\* ---- then fetches what the search returned
ServeListArgs == Opt("count", {1})
ServeSearchArgs ==
    { Spread([query |-> q], l) :
        q \in { <<"a","c","m","e">>, <<"o">> }, l \in Opt("limit", {1}) }
ServeFetchArgs ==
    { [id |-> i] : i \in { results[k].id : k \in DOMAIN results }
                         \cup { results[k].uri : k \in DOMAIN results } }

HandleRequest(s) ==
    /\ s \in DOMAIN servers
    /\ \/ \E args \in ServeListArgs : list_sales(args)
       \/ \E args \in ServeSearchArgs : search(args)
       \/ \E args \in ServeFetchArgs : fetch(args)

Init == InitAt(ServeInstants)
Next ==
    \/ ModuleLoad(DatasetSize, ServeDraws)
    \/ \E s \in 1..MaxServers : PostMcp(s)
    \/ \E s \in 1..MaxServers : Close(s)
    \/ \E s \in 1..MaxServers : HandleRequest(s)
Spec == Init /\ [][Next]_vars

\* ---- module load alone, over dates ----
InitGen == InitAt(GenInstants)
NextGen == ModuleLoad(DatasetSize, GenDraws)
SpecGen == InitGen /\ [][NextGen]_vars

(***************************************************************************)
(* Properties.                                                             *)
(***************************************************************************)
Range(seq) == { seq[i] : i \in DOMAIN seq }

\* position of the first occurrence of x in seq
FirstIndex(seq, x) ==
    CHOOSE i \in DOMAIN seq : seq[i] = x /\ \A j \in 1..(i - 1) : seq[j] # x

\* the elements of seq are pairwise different
Distinct(seq) == \A i, j \in DOMAIN seq : i # j => seq[i] # seq[j]

\* seq lists its elements in the order of their first occurrence in `order`
InOrderOf(seq, order) ==
    \A i, j \in DOMAIN seq : i < j => FirstIndex(order, seq[i]) < FirstIndex(order, seq[j])

StoredIds == { DATASET[i].id : i \in DOMAIN DATASET }

Answered(tool) == request.tool = tool /\ response.kind = "result"

FetchRequested ==
    <<request.arguments.id>>
    \o (IF Has(request.arguments, "ids") THEN request.arguments.ids ELSE <<>>)
FetchRecords == response.structuredContent.records
FetchMissing ==
    IF Has(response.structuredContent, "missing")
    THEN response.structuredContent.missing
    ELSE <<>>
FetchRecordIds == [i \in DOMAIN FetchRecords |-> FetchRecords[i].id]

\* C1: a fetch request that passes the schema always succeeds; every requested
\* id appears exactly once in the output, in `records` as the stored record
\* with that id when the store has it and in `missing` otherwise; both lists
\* follow the order of first occurrence in <<id>> \o ids.
C1_FetchPartition ==
    (request.tool = "fetch" /\ fetchSchema(request.arguments)) =>
        /\ response.kind = "result"
        /\ Distinct(FetchRecordIds)
        /\ Distinct(FetchMissing)
        /\ \A i \in DOMAIN FetchRecords :
              \E k \in DOMAIN DATASET : DATASET[k] = FetchRecords[i]
        /\ Range(FetchRecordIds) = Range(FetchRequested) \cap StoredIds
        /\ Range(FetchMissing) = Range(FetchRequested) \ StoredIds
        /\ InOrderOf(FetchRecordIds, FetchRequested)
        /\ InOrderOf(FetchMissing, FetchRequested)

\* C1 witness: a fetch whose ids repeat the primary id and name an unknown id,
\* answered with one record and one missing id
C1_Witness ==
    /\ Answered("fetch")
    /\ ~Distinct(FetchRequested)
    /\ Len(FetchRecords) = 1
    /\ Len(FetchMissing) = 1

\* the match predicate as the specification words it: every filter that is
\* supplied holds, and the lower-cased query occurs in the lower-cased
\* "customerName productName region status"
SuppliedFiltersHold(sale, filters) ==
    /\ Has(filters, "customer") => sale.customerName = filters.customer
    /\ Has(filters, "product") => sale.productName = filters.product
    /\ Has(filters, "region") => sale.region = filters.region
    /\ Has(filters, "status") => sale.status = filters.status
    /\ Has(filters, "minTotal") => sale.totalAmount >= filters.minTotal
    /\ Has(filters, "maxTotal") => sale.totalAmount <= filters.maxTotal

QueryOccurs(sale, query) ==
    includes(toLowerCase(sale.customerName \o <<" ">> \o sale.productName \o <<" ">>
                         \o sale.region \o <<" ">> \o sale.status),
             toLowerCase(query))

RequestFilters ==
    IF Has(request.arguments, "filters") THEN request.arguments.filters ELSE EmptyObject

SearchResults == response.structuredContent.results

\* C2: for every answered search, a record counts as a match iff every
\* supplied filter holds (an empty-string customer or product filter and a
\* minTotal or maxTotal of 0 included) and the query occurs in the record's text.
C2_MatchIffAllFilters ==
    Answered("search") =>
        LET matching == { i \in DOMAIN DATASET :
                            /\ SuppliedFiltersHold(DATASET[i], RequestFilters)
                            /\ QueryOccurs(DATASET[i], request.arguments.query) }
        IN  /\ response.structuredContent.totalMatches = Cardinality(matching)
            /\ \A k \in DOMAIN SearchResults :
                  \E i \in matching : DATASET[i].id = SearchResults[k].id

\* the positions of the records the search handler's filter callback keeps
MatchingPositions ==
    { i \in DOMAIN DATASET :
        saleMatches(DATASET[i], RequestFilters, toLowerCase(request.arguments.query)) }

RequestLimit ==
    IF Has(request.arguments, "limit") THEN request.arguments.limit ELSE 20

\* C3: for every answered search, `results` are the first `limit` (default 20)
\* matching records in dataset order, totalMatches counts the matches before
\* truncation and returned is the length of results; returned <= limit <= 100,
\* totalMatches >= returned, and no match gives an empty result, not an error.
C3_SearchTruncation ==
    (request.tool = "search" /\ searchSchema(request.arguments)) =>
        /\ response.kind = "result"
        /\ LET sc == response.structuredContent
               positions == MatchingPositions
               count == Cardinality(positions)
           IN  /\ sc.totalMatches = count
               /\ sc.returned = Len(sc.results)
               /\ Len(sc.results) = Min(RequestLimit, count)
               /\ \A k \in DOMAIN sc.results :
                     \E i \in positions :
                        /\ Cardinality({ m \in positions : m <= i }) = k
                        /\ sc.results[k] = searchResult(DATASET[i])
               /\ sc.returned <= RequestLimit
               /\ RequestLimit <= 100
               /\ sc.totalMatches >= sc.returned

\* C3 witness: a search without a limit that matches more than 20 records and
\* returns the first 20
C3_Witness ==
    /\ Answered("search")
    /\ ~Has(request.arguments, "limit")
    /\ response.structuredContent.totalMatches > 20
    /\ response.structuredContent.returned = 20

\* the client fetched with `id` set to field `key` of one of its search results
FetchedBy(key, k) ==
    /\ request.tool = "fetch"
    /\ k \in DOMAIN results
    /\ request.arguments.id = results[k][key]

\* the fetch answer holds exactly the record search result k stands for
ReturnsRecordOf(k) ==
    /\ response.kind = "result"
    /\ \E i \in DOMAIN DATASET :
          /\ DATASET[i].id = results[k].id
          /\ FetchRecords = <<DATASET[i]>>
    /\ FetchMissing = <<>>

\* C4: fetching with a search result's uri as `id` returns that record and
\* reports nothing missing.
C4_UriRoundTrip ==
    \A k \in DOMAIN results : FetchedBy("uri", k) => ReturnsRecordOf(k)

\* C4 (amended): fetching with a search result's id as `id` returns that
\* record and reports nothing missing; the uri is not an id of the store, and
\* fetching with it reports the uri as missing.
C4_IdRoundTrip ==
    \A k \in DOMAIN results :
        /\ FetchedBy("id", k) => ReturnsRecordOf(k)
        /\ FetchedBy("uri", k) =>
              /\ response.kind = "result"
              /\ FetchRecords = <<>>
              /\ FetchMissing = <<results[k].uri>>

\* C4 witness: the client has fetched by the id of a search result
C4_Witness ==
    \E k \in DOMAIN results : FetchedBy("id", k) /\ Len(FetchRecords) = 1

ListCount == request.arguments.count
CountOutOfRange ==
    Has(request.arguments, "count") /\ (ListCount <= 0 \/ ListCount > Len(DATASET))

\* C5: list has no error conditions; an out-of-range count is clamped and
\* answered with records.
C5_ListNeverRejects ==
    request.tool = "list-sales" => response.kind = "result"

\* C5 (amended): list rejects a count that is <= 0 or greater than the dataset
\* size as invalid input, and answers every other request with records; the
\* limit of an answered request is the requested count, so nothing is clamped.
C5_ListRejectsOutOfRange ==
    request.tool = "list-sales" =>
        /\ CountOutOfRange <=> response = InvalidParams
        /\ ~CountOutOfRange <=> response.kind = "result"
        /\ (response.kind = "result" /\ Has(request.arguments, "count")) =>
              response.structuredContent.limit = ListCount

\* C5 witness: a list request for more records than the dataset holds, rejected
C5_Witness ==
    /\ request.tool = "list-sales"
    /\ Has(request.arguments, "count")
    /\ ListCount > Len(DATASET)
    /\ response = InvalidParams

\* C6: for every accepted count, and for the default (the dataset size) when
\* count is omitted, the records list returns are exactly the first
\* min(count, datasetSize) records of the dataset in generation order.
C6_ListPrefix ==
    Answered("list-sales") =>
        LET records == response.structuredContent.records
            wanted == IF Has(request.arguments, "count") THEN ListCount ELSE Len(DATASET)
        IN  /\ Len(records) = Min(wanted, Len(DATASET))
            /\ \A i \in DOMAIN records : records[i] = DATASET[i]
            /\ response.structuredContent.total = Len(records)

\* C6 witness: a list answered with fewer records than the dataset holds
C6_Witness ==
    /\ Answered("list-sales")
    /\ Len(response.structuredContent.records) >= 1
    /\ Len(response.structuredContent.records) < Len(DATASET)

\* C7: a search with an empty query is rejected as invalid input; it is not
\* answered, neither with every record nor with none.
C7_EmptyQueryRejected ==
    (request.tool = "search" /\ request.arguments.query = <<>>) =>
        response = InvalidParams

\* C7 witness: a search with an empty query and no other fault, rejected
C7_Witness ==
    /\ request.tool = "search"
    /\ request.arguments.query = <<>>
    /\ DOMAIN request.arguments = {"query"}
    /\ response = InvalidParams

\* the response without the generatedAt stamp of buildPayload
WithoutGeneratedAt(r) ==
    IF r.kind = "result" /\ Has(r.structuredContent, "generatedAt")
    THEN [r EXCEPT !.structuredContent =
            [k \in DOMAIN r.structuredContent \ {"generatedAt"} |-> r.structuredContent[k]]]
    ELSE r

\* two requests name the same tool with the same arguments
SameRequest(a, b) ==
    /\ a.tool = b.tool
    /\ a.tool # "none" =>
          /\ DOMAIN a.arguments = DOMAIN b.arguments
          /\ \A k \in DOMAIN a.arguments : a.arguments[k] = b.arguments[k]

\* C8: a call with the same inputs as the call before it yields the same
\* output, the whole envelope with generatedAt included.
C8_Idempotent ==
    SameRequest(previous.request, request) => previous.response = response

\* C8 (amended): no step after module load changes the dataset or the id
\* index, and a call with the same inputs as the call before it yields the
\* same output except for generatedAt of list-sales.
C8_IdempotentButTimestamp ==
    [][ /\ pc = "serving" => (DATASET' = DATASET /\ SALES_BY_ID' = SALES_BY_ID)
        /\ SameRequest(previous'.request, request') =>
              WithoutGeneratedAt(previous'.response) = WithoutGeneratedAt(response') ]_vars

\* C8 witness: list-sales called twice with the same inputs at two instants
C8_Witness ==
    /\ Answered("list-sales")
    /\ SameRequest(previous.request, request)
    /\ previous.response # response

\* C9: every context has a dataset of its own: no two open contexts read the
\* same generated dataset.
C9_OwnDataset ==
    \A s, t \in DOMAIN servers : s # t => servers[s] # servers[t]

\* C9 (amended): the dataset is generated once, when the module is loaded, and
\* every context created by createServer reads that one dataset.
C9_SharedModuleDataset ==
    /\ generated = (IF pc = "loading" THEN 0 ELSE 1)
    /\ \A s \in DOMAIN servers : servers[s] = 1

\* C9 witness: two contexts open at the same time
C9_Witness ==
    Cardinality(DOMAIN servers) >= 2

\* new Date(isoText): the instant a printed text denotes
parseISO(iso) ==
    [ day |-> iso.date,
      ms  |-> iso.hour * 3600000 + iso.minute * 60000 + iso.second * 1000 + iso.milli ]

\* a <= b on instants
NotAfter(a, b) == a.day < b.day \/ (a.day = b.day /\ a.ms <= b.ms)

\* C10: every generated saleDate is not later than the generation instant
\* and not earlier than 120 days before it.
C10_SaleDateInWindow ==
    \A i \in DOMAIN DATASET :
        LET saleDate == parseISO(DATASET[i].saleDate)
        IN  /\ NotAfter(saleDate, now)
            /\ NotAfter([day |-> now.day - 120, ms |-> now.ms], saleDate)

====
